---- MODULE Spec2Model ----
(***************************************************************************)
(* A model of nessai-gw's reparameterisations.                             *)
(*                                                                         *)
(* Angles are exact multiples of pi / (2 * Res): the integer a stands for  *)
(* the angle a * pi / (2 * Res), so HalfPi, Pi and TwoPi are integers and  *)
(* np.mod, np.digitize and np.where are computed exactly on the grid.      *)
(* Floating-point rounding is not modelled.                                *)
(*                                                                         *)
(* A structured array is modelled by one of its rows: a function from      *)
(* field names to values whose DOMAIN is the set of fields written so far. *)
(* Every numpy operation the transforms use on a batch is element-wise, so *)
(* fold/unfold of a batch is fold/unfold of each row.  update, which       *)
(* counts over a batch, takes a sequence of rows.                          *)
(***************************************************************************)
EXTENDS Integers, Sequences, FiniteSets, TLC

VARIABLES
    self,        \* the transform instance: configuration and mode_weights
    x,           \* the physical row (x)
    x_prime,     \* the prime row (x_prime)
    log_j,       \* the log-Jacobian accumulator (log_j)
    mode_ids,    \* the ModeID computed by the last call, or NoMode
    pc,          \* the last call made on the instance and its outcome
    batch,       \* the batch given to the last update, if any
    base_reparameterisations,   \* the host library's default registry
    known_reparameterisations,  \* this package's registry
    resolved,    \* what the last get_reparameterisation returned
    args,        \* the arguments of the constructor call
    proposal,    \* a GWReparamMixin proposal: its model and its transforms
    x_prime_names   \* the fields of the x_prime array (x_prime.dtype.names)

vars == <<self, x, x_prime, log_j, mode_ids, pc, batch,
          base_reparameterisations, known_reparameterisations, resolved,
          args, proposal, x_prime_names>>

\* The variables a call on a transform may change, and those it never
\* changes: the registry's, the constructors', the proposal's and the fields
\* of the x_prime array.
tvars == <<self, x, x_prime, log_j, mode_ids, batch>>
rvars == <<base_reparameterisations, known_reparameterisations, resolved,
           args, proposal, x_prime_names>>

\* Grid steps per quarter turn (pi / 2).
Res == 2
\* Largest batch given to update.
MaxBatch == 2

HalfPi == Res
Pi == 2 * Res
TwoPi == 4 * Res

----------------------------------------------------------------------------
(* numpy helpers *)

\* np.digitize(v, bins) for increasing bins, right=False: the number of bin
\* edges <= v (bins[i-1] <= v < bins[i] gives i).
digitize(v, bins) == Cardinality({i \in DOMAIN bins : bins[i] <= v})

\* np.where(c, a, b) on one element: a where c is non-zero.
where(c, a, b) == IF c # 0 THEN a ELSE b

\* row[k] = v on a structured row.
Write(row, k, v) == [f \in (DOMAIN row) \cup {k} |-> IF f = k THEN v ELSE row[f]]

RECURSIVE SumSeq(_)
SumSeq(s) == IF s = <<>> THEN 0 ELSE Head(s) + SumSeq(Tail(s))

----------------------------------------------------------------------------
(* LISAExtrinsicSymmetry *)

lambda_bins == [i \in 1..5 |-> HalfPi * (i - 1)]
beta_bins == <<-HalfPi, 0, HalfPi>>
phase_bins == [i \in 1..3 |-> Pi * (i - 1)]

ModeID(long_num, lat_num, phase_num, index) ==
    [long_num |-> long_num, lat_num |-> lat_num,
     phase_num |-> phase_num, index |-> index]

NoMode == ModeID(-1, -1, -1, -1)

\* mode_weights is None.
NoWeights == [is_none |-> TRUE, num |-> <<>>, den |-> 0]

HasPhase(slf) == slf.phase_parameter # "None"

\* self.parameters for the roles bound at construction.
parameters(slf) ==
    {"lambda", "beta", "psi", "iota"}
        \cup (IF HasPhase(slf) THEN {"phase"} ELSE {})

prime_parameters(slf) ==
    {"lambda_folded", "beta_folded", "psi_folded", "iota_folded"}
        \cup (IF HasPhase(slf) THEN {"phase_folded"} ELSE {})
        \cup (IF slf.include_mode_index THEN {"mode_index"} ELSE {})

n_modes(slf) == IF HasPhase(slf) THEN 16 ELSE 8

determine_modes(slf, row) ==
    LET long_num == digitize(row["lambda"], lambda_bins) - 1
        lat_num == digitize(row["beta"], beta_bins) - 1
        phase_num == IF HasPhase(slf)
                     THEN digitize(row["phase"], phase_bins) - 1
                     ELSE 0
        index == (long_num + (lat_num * 4)) + (8 * phase_num)
    IN  ModeID(long_num, lat_num, phase_num, index)

unfold_modes_nosub(mode_index) ==
    LET phase_num == mode_index \div 8
        long_num == mode_index % 4
        lat_num == mode_index \div 4
    IN  ModeID(long_num, lat_num, phase_num, mode_index)

unfold_modes(mode_index) ==
    LET phase_num == mode_index \div 8
        long_num == (mode_index - (8 * phase_num)) % 4
        lat_num == (mode_index - (8 * phase_num)) \div 4
    IN  ModeID(long_num, lat_num, phase_num, mode_index)

\* Generator.choice(n, size, p) as called by sample_mode_index: the set of
\* indices one element of the result can take, or a failure (ValueError) when
\* p is not None and has a length other than n, holds NaN or a negative
\* entry, or does not sum to 1.  p = None draws uniformly from 0..n-1.
rng_choice(n, p) ==
    IF p.is_none
    THEN [ok |-> TRUE, draws |-> 0..(n - 1)]
    ELSE IF \/ Len(p.num) # n
            \/ p.den = 0
            \/ \E i \in DOMAIN p.num : p.num[i] < 0
            \/ SumSeq(p.num) # p.den
         THEN [ok |-> FALSE, draws |-> {}]
         ELSE [ok |-> TRUE, draws |-> {i \in 0..(n - 1) : p.num[i + 1] > 0}]

sample_mode_index(slf) ==
    IF slf.estimate_mode_weights
    THEN rng_choice(n_modes(slf), slf.mode_weights)
    ELSE rng_choice(n_modes(slf), NoWeights)

fold_no_where(slf, row, row_prime, lj) ==
    LET ids == determine_modes(slf, row)
        p0 == IF slf.include_mode_index
              THEN Write(row_prime, "mode_index", ids.index)
              ELSE row_prime
        p1 == Write(p0, "psi_folded", (row["psi"] - (ids.long_num * HalfPi)) % Pi)
        p3 == Write(p1, "iota_folded", where(ids.lat_num, row["iota"], Pi - row["iota"]))
        p4 == Write(p3, "beta_folded", where(ids.lat_num, row["beta"], -row["beta"]))
        p5 == Write(p4, "lambda_folded", (row["lambda"] - ids.long_num * HalfPi) % TwoPi)
        p6 == IF HasPhase(slf)
              THEN Write(p5, "phase_folded", row["phase"] % Pi)
              ELSE p5
    IN  [x |-> row, x_prime |-> p6, log_j |-> lj, mode_ids |-> ids]

fold_always_index(slf, row, row_prime, lj) ==
    LET ids == determine_modes(slf, row)
        p0 == Write(row_prime, "mode_index", ids.index)
        p1 == Write(p0, "psi_folded", (row["psi"] - (ids.long_num * HalfPi)) % Pi)
        p2 == Write(p1, "psi_folded", where(ids.lat_num, p1["psi_folded"], Pi - p1["psi_folded"]))
        p3 == Write(p2, "iota_folded", where(ids.lat_num, row["iota"], Pi - row["iota"]))
        p4 == Write(p3, "beta_folded", where(ids.lat_num, row["beta"], -row["beta"]))
        p5 == Write(p4, "lambda_folded", (row["lambda"] - ids.long_num * HalfPi) % TwoPi)
        p6 == IF HasPhase(slf)
              THEN Write(p5, "phase_folded", row["phase"] % Pi)
              ELSE p5
    IN  [x |-> row, x_prime |-> p6, log_j |-> lj, mode_ids |-> ids]

\* fold: the writes in the order of the code; x and log_j are returned as
\* given.
fold(slf, row, row_prime, lj) ==
    LET ids == determine_modes(slf, row)
        p0 == IF slf.include_mode_index
              THEN Write(row_prime, "mode_index", ids.index)
              ELSE row_prime
        p1 == Write(p0, "psi_folded", (row["psi"] - (ids.long_num * HalfPi)) % Pi)
        p2 == Write(p1, "psi_folded", where(ids.lat_num, p1["psi_folded"], Pi - p1["psi_folded"]))
        p3 == Write(p2, "iota_folded", where(ids.lat_num, row["iota"], Pi - row["iota"]))
        p4 == Write(p3, "beta_folded", where(ids.lat_num, row["beta"], -row["beta"]))
        p5 == Write(p4, "lambda_folded", (row["lambda"] - ids.long_num * HalfPi) % TwoPi)
        p6 == IF HasPhase(slf)
              THEN Write(p5, "phase_folded", row["phase"] % Pi)
              ELSE p5
    IN  [x |-> row, x_prime |-> p6, log_j |-> lj, mode_ids |-> ids]

\* unfold from the mode index on (lines 387-418): mode_index is the copy of
\* x_prime["mode_index"] or the index sample_mode_index drew.
unfold(slf, row, row_prime, lj, mode_index) ==
    LET ids == unfold_modes(mode_index)
        r1 == Write(row, "lambda", (row_prime["lambda_folded"] + ids.long_num * HalfPi) % TwoPi)
        r2 == Write(r1, "beta", where(ids.lat_num, row_prime["beta_folded"], -row_prime["beta_folded"]))
        r3 == Write(r2, "iota", where(ids.lat_num, row_prime["iota_folded"], Pi - row_prime["iota_folded"]))
        r4 == Write(r3, "psi", where(ids.lat_num, row_prime["psi_folded"], Pi - row_prime["psi_folded"]))
        r5 == Write(r4, "psi", (r4["psi"] + (ids.long_num * HalfPi)) % Pi)
        r6 == IF HasPhase(slf)
              THEN Write(r5, "phase", row_prime["phase_folded"] + ids.phase_num * Pi)
              ELSE r5
    IN  [x |-> r6, x_prime |-> row_prime, log_j |-> lj, mode_ids |-> ids]

\* fold on an x_prime array with the fields names.  Writing mode_index, the
\* first write of fold, raises (ValueError: no field of name) when the array
\* has no such field; mode_ids is then the local of fold that is lost.
fold_fields(slf, row, row_prime, lj, names) ==
    IF slf.include_mode_index /\ "mode_index" \notin names
    THEN [raised |-> TRUE, x |-> row, x_prime |-> row_prime, log_j |-> lj,
          mode_ids |-> NoMode]
    ELSE LET r == fold(slf, row, row_prime, lj)
         IN  [raised |-> FALSE, x |-> r.x, x_prime |-> r.x_prime,
              log_j |-> r.log_j, mode_ids |-> r.mode_ids]

unfold_fields_late(slf, row, row_prime, lj, names) ==
    LET c == IF slf.include_mode_index
             THEN IF "mode_index" \in names
                  THEN [ok |-> TRUE, draws |-> {row_prime["mode_index"]}]
                  ELSE [ok |-> FALSE, draws |-> {}]
             ELSE sample_mode_index(slf)
    IN  IF c.ok
        THEN {LET r == unfold(slf, row, row_prime, lj, mode_index)
              IN  [raised |-> FALSE, x |-> r.x, x_prime |-> r.x_prime,
                   log_j |-> r.log_j, mode_ids |-> r.mode_ids] :
                 mode_index \in c.draws}
        ELSE {[raised |-> TRUE,
               x |-> Write(row, "lambda", row_prime["lambda_folded"]),
               x_prime |-> row_prime, log_j |-> lj, mode_ids |-> NoMode]}

\* unfold on an x_prime array with the fields names: the outcomes, one for
\* each index that can be read or drawn.  The first statement reads
\* x_prime["mode_index"], which raises when the array has no such field, or
\* draws the index, which raises when rng.choice rejects the weights; nothing
\* has been written by then.
unfold_fields(slf, row, row_prime, lj, names) ==
    LET c == IF slf.include_mode_index
             THEN IF "mode_index" \in names
                  THEN [ok |-> TRUE, draws |-> {row_prime["mode_index"]}]
                  ELSE [ok |-> FALSE, draws |-> {}]
             ELSE sample_mode_index(slf)
    IN  IF c.ok
        THEN {LET r == unfold(slf, row, row_prime, lj, mode_index)
              IN  [raised |-> FALSE, x |-> r.x, x_prime |-> r.x_prime,
                   log_j |-> r.log_j, mode_ids |-> r.mode_ids] :
                 mode_index \in c.draws}
        ELSE {[raised |-> TRUE, x |-> row, x_prime |-> row_prime,
               log_j |-> lj, mode_ids |-> NoMode]}

----------------------------------------------------------------------------
(* Mode weights: arrays of fractions num[i] / den with a common denominator; *)
(* den = 0 stands for an array of NaN (0 / 0).                               *)

Max(a, b) == IF a >= b THEN a ELSE b

\* np.bincount(index, minlength): one count per value 0..max(index), padded
\* with zeros to minlength.
bincount(index, minlength) ==
    LET top == IF index = <<>> THEN 0
               ELSE (CHOOSE m \in {index[j] : j \in DOMAIN index} :
                        \A j \in DOMAIN index : index[j] <= m) + 1
    IN  [i \in 1..Max(minlength, top) |->
            Cardinality({j \in DOMAIN index : index[j] = i - 1})]

\* w / w.sum()
div_by_sum(w) ==
    IF w.den = 0 \/ SumSeq(w.num) = 0
    THEN [is_none |-> FALSE, num |-> w.num, den |-> 0]
    ELSE [is_none |-> FALSE, num |-> w.num, den |-> SumSeq(w.num)]

\* np.maximum(w, f) for a scalar fraction f; NaN stays NaN.
maximum(w, f) ==
    IF w.den = 0 THEN w
    ELSE [is_none |-> FALSE,
          num |-> [i \in DOMAIN w.num |-> Max(w.num[i] * f.den, f.num * w.den)],
          den |-> w.den * f.den]

update_accumulate(slf, b) ==
    IF slf.estimate_mode_weights
    THEN LET index == [j \in DOMAIN b |-> determine_modes(slf, b[j]).index]
             fresh == bincount(index, n_modes(slf))
             counts == IF slf.mode_weights.is_none
                          \/ Len(slf.mode_weights.num) # Len(fresh)
                       THEN fresh
                       ELSE [i \in DOMAIN fresh |-> fresh[i] + slf.mode_weights.num[i]]
             mode_weights == div_by_sum([is_none |-> FALSE, num |-> counts, den |-> 1])
             floored == IF slf.minimum_mode_weight.num # 0
                        THEN maximum(mode_weights, slf.minimum_mode_weight)
                        ELSE mode_weights
         IN  [slf EXCEPT !.mode_weights = div_by_sum(floored)]
    ELSE slf

update(slf, b) ==
    IF slf.estimate_mode_weights
    THEN LET index == [j \in DOMAIN b |-> determine_modes(slf, b[j]).index]
             counts == bincount(index, n_modes(slf))
             mode_weights == div_by_sum([is_none |-> FALSE, num |-> counts, den |-> 1])
             floored == IF slf.minimum_mode_weight.num # 0
                        THEN maximum(mode_weights, slf.minimum_mode_weight)
                        ELSE mode_weights
         IN  [slf EXCEPT !.mode_weights = div_by_sum(floored)]
    ELSE slf

reset_keeps(slf) == slf

reset(slf) == [slf EXCEPT !.mode_weights = NoWeights]

----------------------------------------------------------------------------
(* Inputs *)

\* minimum_mode_weight = None (or 0): the floor is disabled.
NoFloor == [num |-> 0, den |-> 1]

\* The instances construction returns: the phase role bound or not, one of
\* the two inversion policies (never both), mode_weights = None.
Instances ==
    {[phase_parameter |-> ph, include_mode_index |-> inc,
      estimate_mode_weights |-> est, minimum_mode_weight |-> mmw,
      mode_weights |-> NoWeights] :
        ph \in {"phase", "None"}, inc \in BOOLEAN, est \in BOOLEAN,
        mmw \in {NoFloor, [num |-> 1, den |-> 10]}}

\* A row of x with the fields self.parameters.
Row(slf, lam, bet, psi, iot, pha) ==
    IF HasPhase(slf)
    THEN [lambda |-> lam, beta |-> bet, psi |-> psi, iota |-> iot, phase |-> pha]
    ELSE [lambda |-> lam, beta |-> bet, psi |-> psi, iota |-> iot]

\* The rows within the prior bounds the setters accept, bounds included.
Rows(slf) ==
    {Row(slf, lam, bet, psi, iot, pha) :
        lam \in 0..TwoPi, bet \in (-HalfPi)..HalfPi, psi \in 0..Pi,
        iot \in 0..Pi, pha \in IF HasPhase(slf) THEN 0..TwoPi ELSE {0}}

\* update has not been called.
NoBatch == [given |-> FALSE, rows |-> <<>>]

----------------------------------------------------------------------------
(* Calls on a LISAExtrinsicSymmetry instance *)

\* The registry, the constructors and the proposal take no part.
NoRegistry ==
    /\ base_reparameterisations = <<>>
    /\ known_reparameterisations = <<>>
    /\ resolved = <<>>
    /\ args = <<>>
    /\ proposal = <<>>

\* reparameterise on arrays that hold the fields of the transform, but for
\* mode_index, which x_prime may lack.
reparameterise ==
    /\ parameters(self) \subseteq DOMAIN x
    /\ (prime_parameters(self) \ {"mode_index"}) \subseteq x_prime_names
    /\ \E r \in {fold_fields(self, x, x_prime, log_j, x_prime_names)} :
           /\ x' = r.x
           /\ x_prime' = r.x_prime
           /\ log_j' = r.log_j
           /\ mode_ids' = IF r.raised THEN mode_ids ELSE r.mode_ids
           /\ pc' = IF r.raised THEN "reparameterise raised"
                    ELSE "reparameterise"
    /\ UNCHANGED <<self, batch, rvars>>

\* inverse_reparameterise on an x_prime whose fields have been written: the
\* mode index is read from x_prime or drawn.
inverse_reparameterise ==
    /\ (prime_parameters(self) \cap x_prime_names) \subseteq DOMAIN x_prime
    /\ (prime_parameters(self) \ {"mode_index"}) \subseteq x_prime_names
    /\ \E r \in unfold_fields(self, x, x_prime, log_j, x_prime_names) :
           /\ x' = r.x
           /\ x_prime' = r.x_prime
           /\ log_j' = r.log_j
           /\ mode_ids' = IF r.raised THEN mode_ids ELSE r.mode_ids
           /\ pc' = IF r.raised THEN "inverse_reparameterise raised"
                    ELSE "inverse_reparameterise"
    /\ UNCHANGED <<self, batch, rvars>>

----------------------------------------------------------------------------
(* SpecFold: one row folded and unfolded, under the explicit-index and the *)
(* uniform policy.                                                         *)

InitFold ==
    /\ self \in {s \in Instances : ~s.estimate_mode_weights
                                   /\ s.minimum_mode_weight = NoFloor}
    /\ x \in Rows(self)
    /\ x_prime = <<>>
    /\ log_j = 0
    /\ mode_ids = NoMode
    /\ pc = "init"
    /\ batch = NoBatch
    /\ NoRegistry
    /\ x_prime_names = prime_parameters(self)

NextFold == reparameterise \/ inverse_reparameterise

SpecFold == InitFold /\ [][NextFold]_vars

----------------------------------------------------------------------------
(* SpecWeights: the estimated-weights policy.  update is given batches of     *)
(* rows of the first mode of x's phase bin, of its last mode, and of a row on *)
(* the upper latitude bound.                                                  *)

UpdateRows(slf) ==
    {Row(slf, 0, -HalfPi, 0, 0, Pi),
     Row(slf, 3 * HalfPi, 0, 0, 0, Pi),
     Row(slf, 0, HalfPi, 0, 0, Pi)}

Batches(slf) ==
    UNION {[1..n -> UpdateRows(slf)] : n \in 0..MaxBatch}

update_call ==
    /\ \E b \in Batches(self) :
          /\ self' = update(self, b)
          /\ batch' = [given |-> TRUE, rows |-> b]
    /\ pc' = "update"
    /\ UNCHANGED <<x, x_prime, log_j, mode_ids, rvars>>

reset_call ==
    /\ self' = reset(self)
    /\ pc' = "reset"
    /\ UNCHANGED <<x, x_prime, log_j, mode_ids, batch, rvars>>

InitWeights ==
    /\ self \in {s \in Instances : s.estimate_mode_weights
                                   /\ ~s.include_mode_index}
    /\ x = [f \in parameters(self) |-> 0]
    /\ x_prime = <<>>
    /\ log_j = 0
    /\ mode_ids = NoMode
    /\ pc = "init"
    /\ batch = NoBatch
    /\ NoRegistry
    /\ x_prime_names = prime_parameters(self)

NextWeights ==
    update_call \/ reset_call \/ reparameterise \/ inverse_reparameterise

SpecWeights == InitWeights /\ [][NextWeights]_vars

----------------------------------------------------------------------------
(* SpecFailure: calls that fail.  The x_prime array may lack the mode_index *)
(* field, and update may leave weights that rng.choice rejects.             *)

\* The x_prime arrays a caller hands over: nothing written yet, or the folded
\* fields of x in the fields the array has.
GivenPrime(slf, row, names) ==
    {<<>>, [k \in names |-> fold(slf, row, <<>>, 0).x_prime[k]]}

InitFailure ==
    /\ self \in {s \in Instances :
                    /\ ~(s.estimate_mode_weights /\ s.include_mode_index)
                    /\ s.minimum_mode_weight = NoFloor}
    /\ x \in UpdateRows(self)
    /\ x_prime_names \in {prime_parameters(self),
                          prime_parameters(self) \ {"mode_index"}}
    /\ x_prime \in GivenPrime(self, x, x_prime_names)
    /\ log_j = 0
    /\ mode_ids = NoMode
    /\ pc = "init"
    /\ batch = NoBatch
    /\ base_reparameterisations = <<>>
    /\ known_reparameterisations = <<>>
    /\ resolved = <<>>
    /\ args = <<>>
    /\ proposal = <<>>

NextFailure ==
    update_call \/ reset_call \/ reparameterise \/ inverse_reparameterise

SpecFailure == InitFailure /\ [][NextFailure]_vars

----------------------------------------------------------------------------
(* DeltaPhaseReparameterisation *)

\* np.sign(np.cos(theta)) for an angle of the grid.
sign_cos(theta) ==
    LET t == theta % TwoPi
    IN  IF t < HalfPi \/ t > 3 * HalfPi THEN 1
        ELSE IF t = HalfPi \/ t = 3 * HalfPi THEN 0
        ELSE -1

DeltaPhase ==
    [parameters |-> <<"phase">>, prime_parameters |-> <<"delta_phase">>,
     requires |-> <<"psi", "theta_jn">>]

delta_reparameterise(slf, row, row_prime, lj) ==
    [x |-> row,
     x_prime |-> Write(row_prime, slf.prime_parameters[1],
                       row[slf.parameters[1]]
                           + sign_cos(row["theta_jn"]) * row["psi"]),
     log_j |-> lj]

delta_inverse_unsigned(slf, row, row_prime, lj) ==
    [x |-> Write(row, slf.parameters[1],
                 (row_prime[slf.prime_parameters[1]] - row["psi"]) % TwoPi),
     x_prime |-> row_prime,
     log_j |-> lj]

delta_inverse_reparameterise(slf, row, row_prime, lj) ==
    [x |-> Write(row, slf.parameters[1],
                 (row_prime[slf.prime_parameters[1]]
                     - sign_cos(row["theta_jn"]) * row["psi"]) % TwoPi),
     x_prime |-> row_prime,
     log_j |-> lj]

\* The batches of the invertibility test: phase in [0, 2pi), psi in [0, pi),
\* theta_jn in [0, pi].
DeltaRows ==
    {[phase |-> pha, psi |-> psi, theta_jn |-> the] :
        pha \in 0..(TwoPi - 1), psi \in 0..(Pi - 1), the \in 0..Pi}

DeltaPhase_reparameterise ==
    /\ \E r \in {delta_reparameterise(self, x, x_prime, log_j)} :
          /\ x' = r.x
          /\ x_prime' = r.x_prime
          /\ log_j' = r.log_j
    /\ pc' = "DeltaPhase.reparameterise"
    /\ UNCHANGED <<self, mode_ids, batch, rvars>>

\* The caller hands over x with any value in the phase field (the test
\* passes NaN) and the psi and theta_jn of the forward call.
DeltaPhase_inverse_reparameterise ==
    /\ self.prime_parameters[1] \in DOMAIN x_prime
    /\ \E stale \in 0..(TwoPi - 1) :
          \E r \in {delta_inverse_reparameterise(
                        self, Write(x, self.parameters[1], stale),
                        x_prime, log_j)} :
              /\ x' = r.x
              /\ x_prime' = r.x_prime
              /\ log_j' = r.log_j
    /\ pc' = "DeltaPhase.inverse_reparameterise"
    /\ UNCHANGED <<self, mode_ids, batch, rvars>>

InitDelta ==
    /\ self = DeltaPhase
    /\ x \in DeltaRows
    /\ x_prime = <<>>
    /\ log_j \in {0, 1}
    /\ mode_ids = NoMode
    /\ pc = "init"
    /\ batch = NoBatch
    /\ NoRegistry
    /\ x_prime_names = {"delta_phase", "theta_jn", "psi"}

NextDelta == DeltaPhase_reparameterise \/ DeltaPhase_inverse_reparameterise

SpecDelta == InitDelta /\ [][NextDelta]_vars

----------------------------------------------------------------------------
(* The registry: nessai_gw.reparameterisations.known_reparameterisations *)

\* ReparameterisationDict.add_reparameterisation(name, class, kwargs); the
\* default kwargs are a set of <<keyword, value>>.
add_reparameterisation(reg, name, cls, kwargs) ==
    [k \in (DOMAIN reg) \cup {name} |->
        IF k = name THEN [cls |-> cls, kwargs |-> kwargs] ELSE reg[k]]

\* dict.update(other): every key of other is set to other's value.
dict_update(reg, other) ==
    [k \in (DOMAIN reg) \cup (DOMAIN other) |->
        IF k \in DOMAIN other THEN other[k] ELSE reg[k]]

\* The entries this package adds, in the order of the module.
DomainRegistry ==
    LET r0 == <<>>
        r1 == add_reparameterisation(r0, "distance", "DistanceReparameterisation",
                  {<<"boundary_inversion", "True">>, <<"detect_edges", "True">>,
                   <<"inversion_type", "duplicate">>})
        r2 == add_reparameterisation(r1, "time", "RescaleToBounds",
                  {<<"offset", "True">>, <<"update_bounds", "True">>})
        r3 == add_reparameterisation(r2, "sky-ra-dec", "AnglePair",
                  {<<"convention", "ra-dec">>})
        r4 == add_reparameterisation(r3, "sky-az-zen", "AnglePair",
                  {<<"convention", "az-zen">>})
        r5 == add_reparameterisation(r4, "mass_ratio", "RescaleToBounds",
                  {<<"detect_edges", "True">>, <<"boundary_inversion", "True">>,
                   <<"inversion_type", "duplicate">>, <<"update_bounds", "True">>})
        r6 == add_reparameterisation(r5, "mass", "RescaleToBounds",
                  {<<"update_bounds", "True">>})
        r7 == add_reparameterisation(r6, "delta_phase", "DeltaPhaseReparameterisation", {})
        r8 == add_reparameterisation(r7, "delta-phase", "DeltaPhaseReparameterisation", {})
    IN  r8

\* known_reparameterisations once the module is imported: the package's
\* entries, then update(base_reparameterisations).
known_reparameterisations_imported(base) ==
    dict_update(DomainRegistry, base)

\* get_reparameterisation(name) for a string: the entry of the merged
\* registry, or a failure for a name that is not registered.
get_reparameterisation(name, defaults) ==
    IF name \in DOMAIN defaults
    THEN [ok |-> TRUE, name |-> name,
          cls |-> defaults[name].cls, kwargs |-> defaults[name].kwargs]
    ELSE [ok |-> FALSE, name |-> name, cls |-> "", kwargs |-> {}]

\* The names the host library's default registry may hold, and the entry it
\* holds for each.
HostNames == {"default", "angle-pi", "periodic", "distance", "time", "mass"}

HostEntry(name) == [cls |-> "nessai", kwargs |-> {<<"host", name>>}]

BaseRegistries ==
    {[k \in names |-> HostEntry(k)] : names \in SUBSET HostNames}

LookupNames == (DOMAIN DomainRegistry) \cup HostNames \cup {"unknown"}

\* The transform takes no part.
NoTransform ==
    /\ self = <<>>
    /\ x = <<>>
    /\ x_prime = <<>>
    /\ log_j = 0
    /\ mode_ids = NoMode
    /\ batch = NoBatch

import_reparameterisations ==
    /\ pc = "init"
    /\ known_reparameterisations' =
          known_reparameterisations_imported(base_reparameterisations)
    /\ pc' = "imported"
    /\ UNCHANGED <<tvars, base_reparameterisations, resolved, args, proposal,
                   x_prime_names>>

get_reparameterisation_call ==
    /\ pc # "init"
    /\ \E name \in LookupNames :
          resolved' = get_reparameterisation(name, known_reparameterisations)
    /\ pc' = IF resolved'.ok THEN "get_reparameterisation"
             ELSE "get_reparameterisation raised"
    /\ UNCHANGED <<tvars, base_reparameterisations, known_reparameterisations,
                   args, proposal, x_prime_names>>

InitRegistry ==
    /\ NoTransform
    /\ pc = "init"
    /\ base_reparameterisations \in BaseRegistries
    /\ known_reparameterisations = <<>>
    /\ resolved = <<>>
    /\ args = <<>>
    /\ proposal = <<>>
    /\ x_prime_names = {}

NextRegistry == import_reparameterisations \/ get_reparameterisation_call

SpecRegistry == InitRegistry /\ [][NextRegistry]_vars

----------------------------------------------------------------------------
(* LISAExtrinsicSymmetry.__init__ *)

\* A declared prior bound: the grid angle g plus d times an offset far
\* below the tolerance of np.isclose (d = 0: exactly the grid angle).
Bound(g, d) == [g |-> g, d |-> d]

\* np.isclose(v, target) for a grid angle target.
isclose(v, target) == v.g = target

\* v != 0
nonzero(v) == v # Bound(0, 0)

known_lambda_parameters == {"eclipticlongitude", "lambda"}
known_beta_parameters == {"eclipticlatitude", "beta"}
known_psi_parameters == {"polarization", "psi"}
known_iota_parameters == {"iota", "inclination"}
known_phase_parameters == {"phase", "coa_phase"}

\* p + "_folded"
folded(p) ==
    CASE p = "eclipticlongitude" -> "eclipticlongitude_folded"
      [] p = "lambda" -> "lambda_folded"
      [] p = "eclipticlatitude" -> "eclipticlatitude_folded"
      [] p = "polarization" -> "polarization_folded"
      [] p = "iota" -> "iota_folded"
      [] p = "phase" -> "phase_folded"
      [] p = "coa_phase" -> "coa_phase_folded"

Raise(slf, exception, by) == [slf EXCEPT !.raised = exception, !.by = by]

determine_parameter_any(slf, known_parameters, required) ==
    LET params == {slf.parameters[i] : i \in DOMAIN slf.parameters}
        names == known_parameters \cap params
    IN  IF names = {}
        THEN IF ~required
             THEN [raised |-> "None", name |-> "None"]
             ELSE [raised |-> "RuntimeError", name |-> "None"]
        ELSE [raised |-> "None", name |-> CHOOSE n \in names : TRUE]

\* determine_parameter: the one member of self.parameters in
\* known_parameters; "None" when there is none and it is not required.
determine_parameter(slf, known_parameters, required) ==
    LET params == {slf.parameters[i] : i \in DOMAIN slf.parameters}
        names == known_parameters \cap params
    IN  IF Cardinality(names) > 1
        THEN [raised |-> "RuntimeError", name |-> "None"]
        ELSE IF names = {}
        THEN IF ~required
             THEN [raised |-> "None", name |-> "None"]
             ELSE [raised |-> "RuntimeError", name |-> "None"]
        ELSE [raised |-> "None", name |-> CHOOSE n \in names : TRUE]

set_role_lower_only(slf, role, name, known_parameters, required, exact_lower, lower, upper) ==
    IF slf.raised # "None" THEN slf
    ELSE LET d == IF name = "None"
                  THEN determine_parameter(slf, known_parameters, required)
                  ELSE [raised |-> "None", name |-> name]
         IN  IF d.raised # "None" THEN Raise(slf, d.raised, role)
             ELSE IF d.name = "None" THEN slf
             ELSE IF d.name \notin DOMAIN slf.prior_bounds
                  THEN Raise(slf, "KeyError", role)
             ELSE IF (IF exact_lower THEN nonzero(slf.prior_bounds[d.name][1])
                      ELSE ~isclose(slf.prior_bounds[d.name][1], lower))
                  THEN Raise(slf, "RuntimeError", role)
             ELSE [slf EXCEPT ![role] = d.name]

\* The body the five role setters share: infer the name when it is None,
\* compare the declared bounds of the name with lower and upper, bind the
\* role.  exact_lower: the lower bound is compared with != 0, not np.isclose.
\* A statement of __init__ that follows a raise is not executed.
set_role(slf, role, name, known_parameters, required, exact_lower, lower, upper) ==
    IF slf.raised # "None" THEN slf
    ELSE LET d == IF name = "None"
                  THEN determine_parameter(slf, known_parameters, required)
                  ELSE [raised |-> "None", name |-> name]
         IN  IF d.raised # "None" THEN Raise(slf, d.raised, role)
             ELSE IF d.name = "None" THEN slf
             ELSE IF d.name \notin DOMAIN slf.prior_bounds
                  THEN Raise(slf, "KeyError", role)
             ELSE IF (IF exact_lower THEN nonzero(slf.prior_bounds[d.name][1])
                      ELSE ~isclose(slf.prior_bounds[d.name][1], lower))
                  THEN Raise(slf, "RuntimeError", role)
             ELSE IF ~isclose(slf.prior_bounds[d.name][2], upper)
                  THEN Raise(slf, "RuntimeError", role)
             ELSE [slf EXCEPT ![role] = d.name]

lambda_parameter_setter(slf, name) ==
    set_role(slf, "lambda_parameter", name, known_lambda_parameters,
             TRUE, TRUE, 0, TwoPi)

beta_parameter_setter(slf, name) ==
    set_role(slf, "beta_parameter", name, known_beta_parameters,
             TRUE, FALSE, -HalfPi, HalfPi)

psi_parameter_setter(slf, name) ==
    set_role(slf, "psi_parameter", name, known_psi_parameters,
             TRUE, TRUE, 0, Pi)

iota_parameter_setter(slf, name) ==
    set_role(slf, "iota_parameter", name, known_iota_parameters,
             TRUE, TRUE, 0, Pi)

phase_parameter_setter(slf, name) ==
    set_role(slf, "phase_parameter", name, known_phase_parameters,
             FALSE, TRUE, 0, TwoPi)

\* The object before __init__ runs: the class attributes.
NewInstance ==
    [raised |-> "None", by |-> "None",
     parameters |-> <<>>, prior_bounds |-> <<>>,
     lambda_parameter |-> "None", beta_parameter |-> "None",
     psi_parameter |-> "None", iota_parameter |-> "None",
     phase_parameter |-> "None",
     include_mode_index |-> FALSE, prime_parameters |-> <<>>,
     estimate_mode_weights |-> FALSE, minimum_mode_weight |-> NoFloor,
     mode_weights |-> NoWeights]

\* The mutual exclusion of the two inversion policies.
check_policies(slf) ==
    IF slf.raised # "None" THEN slf
    ELSE IF slf.estimate_mode_weights /\ slf.include_mode_index
         THEN Raise(slf, "RuntimeError", "__init__")
    ELSE slf

\* __init__ with the exclusion check left out.
LISAExtrinsicSymmetry_init_unchecked(a) ==
    LET s0 == [NewInstance EXCEPT !.parameters = a.parameters,
                                  !.prior_bounds = a.prior_bounds]
        s1 == lambda_parameter_setter(s0, a.lambda_parameter)
        s2 == beta_parameter_setter(s1, a.beta_parameter)
        s3 == psi_parameter_setter(s2, a.psi_parameter)
        s4 == iota_parameter_setter(s3, a.iota_parameter)
        s5 == phase_parameter_setter(s4, a.phase_parameter)
        s6 == IF s5.raised # "None" THEN s5
              ELSE [s5 EXCEPT
                      !.include_mode_index = a.include_mode_index,
                      !.prime_parameters =
                          [i \in DOMAIN s5.parameters |-> folded(s5.parameters[i])],
                      !.estimate_mode_weights = a.estimate_mode_weights,
                      !.minimum_mode_weight = a.minimum_mode_weight,
                      !.mode_weights = NoWeights]
    IN  IF s6.raised = "None" /\ s6.include_mode_index
        THEN [s6 EXCEPT !.prime_parameters = Append(@, "mode_index")]
        ELSE s6

\* __init__: the parent's constructor stores parameters and prior_bounds, the
\* five role setters run in order, the flags are stored, the two policies are
\* checked against each other, mode_index is appended to prime_parameters.
LISAExtrinsicSymmetry_init(a) ==
    LET s0 == [NewInstance EXCEPT !.parameters = a.parameters,
                                  !.prior_bounds = a.prior_bounds]
        s1 == lambda_parameter_setter(s0, a.lambda_parameter)
        s2 == beta_parameter_setter(s1, a.beta_parameter)
        s3 == psi_parameter_setter(s2, a.psi_parameter)
        s4 == iota_parameter_setter(s3, a.iota_parameter)
        s5 == phase_parameter_setter(s4, a.phase_parameter)
        s6 == IF s5.raised # "None" THEN s5
              ELSE [s5 EXCEPT
                      !.include_mode_index = a.include_mode_index,
                      !.prime_parameters =
                          [i \in DOMAIN s5.parameters |-> folded(s5.parameters[i])],
                      !.estimate_mode_weights = a.estimate_mode_weights,
                      !.minimum_mode_weight = a.minimum_mode_weight,
                      !.mode_weights = NoWeights]
        s7 == check_policies(s6)
    IN  IF s7.raised = "None" /\ s7.include_mode_index
        THEN [s7 EXCEPT !.prime_parameters = Append(@, "mode_index")]
        ELSE s7

\* The names the caller may list in parameters, in a fixed order.
ParameterNames ==
    <<"eclipticlongitude", "lambda", "eclipticlatitude", "polarization",
      "iota", "phase", "coa_phase">>

ParameterLists ==
    {LET Listed(p) == p \in listed IN SelectSeq(ParameterNames, Listed) :
        listed \in SUBSET {ParameterNames[i] : i \in DOMAIN ParameterNames}}

\* The canonical range of the role a name is an alias of.
CanonicalBounds(p) ==
    IF p \in known_lambda_parameters \cup known_phase_parameters
    THEN <<Bound(0, 0), Bound(TwoPi, 0)>>
    ELSE IF p \in known_beta_parameters
    THEN <<Bound(-HalfPi, 0), Bound(HalfPi, 0)>>
    ELSE <<Bound(0, 0), Bound(Pi, 0)>>

\* How the declared bounds depart from the canonical ranges: not at all, or
\* at one end of one parameter, by a grid step or by a small offset.
Departures(params) ==
    {[p |-> "None", end |-> 1, g |-> 0, d |-> 0]}
        \cup {[p |-> params[i], end |-> e, g |-> gd[1], d |-> gd[2]] :
                 i \in DOMAIN params, e \in {1, 2}, gd \in {<<1, 0>>, <<0, 1>>}}

DeclaredBounds(params, dep) ==
    [p \in {params[i] : i \in DOMAIN params} |->
        IF p = dep.p
        THEN [CanonicalBounds(p) EXCEPT
                 ![dep.end] = Bound(@.g + dep.g, @.d + dep.d)]
        ELSE CanonicalBounds(p)]

\* A constructor call: a list of names with bounds for each, the longitude
\* and phase roles named explicitly or left to inference, either flag.
ConstructorCall(params, dep, inc, est, lam, pha) ==
    [parameters |-> params, prior_bounds |-> DeclaredBounds(params, dep),
     include_mode_index |-> inc, estimate_mode_weights |-> est,
     minimum_mode_weight |-> NoFloor,
     lambda_parameter |-> lam, beta_parameter |-> "None",
     psi_parameter |-> "None", iota_parameter |-> "None",
     phase_parameter |-> pha]

LISAExtrinsicSymmetry_init_call ==
    /\ pc = "init"
    /\ self' = LISAExtrinsicSymmetry_init(args)
    /\ pc' = IF self'.raised = "None" THEN "LISAExtrinsicSymmetry.__init__"
             ELSE "LISAExtrinsicSymmetry.__init__ raised"
    /\ UNCHANGED <<x, x_prime, log_j, mode_ids, batch, rvars>>

\* n_modes read on a constructed instance.
n_modes_call ==
    /\ pc = "LISAExtrinsicSymmetry.__init__"
    /\ resolved' = n_modes(self)
    /\ pc' = "n_modes"
    /\ UNCHANGED <<tvars, base_reparameterisations, known_reparameterisations,
                   args, proposal, x_prime_names>>

InitConstruct ==
    /\ \E params \in ParameterLists :
          \E dep \in Departures(params), inc \in BOOLEAN, est \in BOOLEAN,
             lam \in {"None", "lambda"}, pha \in {"None", "phase"} :
              args = ConstructorCall(params, dep, inc, est, lam, pha)
    /\ self = NewInstance
    /\ x = <<>>
    /\ x_prime = <<>>
    /\ log_j = 0
    /\ mode_ids = NoMode
    /\ pc = "init"
    /\ batch = NoBatch
    /\ base_reparameterisations = <<>>
    /\ known_reparameterisations = <<>>
    /\ resolved = <<>>
    /\ proposal = <<>>
    /\ x_prime_names = {}

NextConstruct == LISAExtrinsicSymmetry_init_call \/ n_modes_call

SpecConstruct == InitConstruct /\ [][NextConstruct]_vars

----------------------------------------------------------------------------
(* DistanceReparameterisation.__init__ *)

\* The most names a caller lists.
MaxNames == 3

\* The constructor, with the statements it has executed in calls: the lookup
\* of the converter class, the construction of the converter, the parent's
\* constructor.  parameters is a string (is_str) or a list.
DistanceReparameterisation_init_uncounted(a) ==
    LET parameters_ == IF a.is_str THEN <<a.parameters>> ELSE a.parameters
        none == [raised |-> "None", calls |-> <<>>, parameters |-> <<>>,
                 distance_converter |-> <<>>]
    IN  IF Len(parameters_) = 0
        THEN [none EXCEPT !.raised = "IndexError",
                          !.calls = <<"get_distance_converter">>]
        ELSE IF parameters_[1] \notin DOMAIN a.prior_bounds
        THEN [none EXCEPT !.raised = "KeyError",
                          !.calls = <<"get_distance_converter">>]
        ELSE [none EXCEPT
                !.calls = <<"get_distance_converter", "dc_class",
                            "RescaleToBounds.__init__">>,
                !.parameters = parameters_,
                !.distance_converter =
                    [prior |-> a.prior,
                     d_min |-> a.prior_bounds[parameters_[1]][1],
                     d_max |-> a.prior_bounds[parameters_[1]][2]]]

DistanceReparameterisation_init(a) ==
    LET parameters_ == IF a.is_str THEN <<a.parameters>> ELSE a.parameters
        none == [raised |-> "None", calls |-> <<>>, parameters |-> <<>>,
                 distance_converter |-> <<>>]
    IN  IF Len(parameters_) > 1
        THEN [none EXCEPT !.raised = "RuntimeError"]
        ELSE IF Len(parameters_) = 0
        THEN [none EXCEPT !.raised = "IndexError",
                          !.calls = <<"get_distance_converter">>]
        ELSE IF parameters_[1] \notin DOMAIN a.prior_bounds
        THEN [none EXCEPT !.raised = "KeyError",
                          !.calls = <<"get_distance_converter">>]
        ELSE [none EXCEPT
                !.calls = <<"get_distance_converter", "dc_class",
                            "RescaleToBounds.__init__">>,
                !.parameters = parameters_,
                !.distance_converter =
                    [prior |-> a.prior,
                     d_min |-> a.prior_bounds[parameters_[1]][1],
                     d_max |-> a.prior_bounds[parameters_[1]][2]]]

DistanceNames == {"luminosity_distance", "distance"}

DistancePriors == {"None", "power-law", "uniform-comoving-volume"}

DistanceBounds == {<<10, 1000>>, <<1, 100>>}

DistanceReparameterisation_init_call ==
    /\ pc = "init"
    /\ self' = DistanceReparameterisation_init(args)
    /\ pc' = IF self'.raised = "None" THEN "DistanceReparameterisation.__init__"
             ELSE "DistanceReparameterisation.__init__ raised"
    /\ UNCHANGED <<x, x_prime, log_j, mode_ids, batch, rvars>>

\* The calls: one name as a string, or a list of up to MaxNames names, with
\* prior bounds for every name given.
InitDistance ==
    /\ \E prior \in DistancePriors, b \in DistanceBounds :
          \/ \E name \in DistanceNames :
                args = [is_str |-> TRUE, parameters |-> name, prior |-> prior,
                        prior_bounds |-> [n \in {name} |-> b]]
          \/ \E n \in 0..MaxNames : \E names \in [1..n -> DistanceNames] :
                args = [is_str |-> FALSE, parameters |-> names, prior |-> prior,
                        prior_bounds |-> [k \in {names[i] : i \in 1..n} |-> b]]
    /\ self = <<>>
    /\ x = <<>>
    /\ x_prime = <<>>
    /\ log_j = 0
    /\ mode_ids = NoMode
    /\ pc = "init"
    /\ batch = NoBatch
    /\ base_reparameterisations = <<>>
    /\ known_reparameterisations = <<>>
    /\ resolved = <<>>
    /\ proposal = <<>>
    /\ x_prime_names = {}

NextDistance == DistanceReparameterisation_init_call

SpecDistance == InitDistance /\ [][NextDistance]_vars

----------------------------------------------------------------------------
(* GWReparamMixin.add_default_reparameterisations *)

\* An alias: the registry key and the co-parameters (None is the empty list:
\* both give [p]).
Alias(name, extra_params) == [name |-> name, extra_params |-> extra_params]

aliases ==
    [chirp_mass |-> Alias("mass", <<>>),
     mass_ratio |-> Alias("mass_ratio", <<>>),
     ra |-> Alias("sky-ra-dec", <<"DEC", "dec", "Dec">>),
     dec |-> Alias("sky-ra-dec", <<"RA", "ra">>),
     azimuth |-> Alias("sky-az-zen", <<"zenith", "zen", "Zen", "Zenith">>),
     zenith |-> Alias("sky-az-zen", <<"azimuth", "az", "Az", "Azimuth">>),
     theta_1 |-> Alias("angle-sine", <<>>),
     theta_2 |-> Alias("angle-sine", <<>>),
     tilt_1 |-> Alias("angle-sine", <<>>),
     tilt_2 |-> Alias("angle-sine", <<>>),
     theta_jn |-> Alias("angle-sine", <<>>),
     iota |-> Alias("angle-sine", <<>>),
     phi_jl |-> Alias("angle-2pi", <<>>),
     phi_12 |-> Alias("angle-2pi", <<>>),
     phase |-> Alias("angle-2pi", <<>>),
     psi |-> Alias("angle-pi", <<>>),
     geocent_time |-> Alias("time", <<>>),
     time_jitter |-> Alias("periodic", <<>>),
     a_1 |-> Alias("default", <<>>),
     a_2 |-> Alias("default", <<>>),
     chi_1 |-> Alias("default", <<>>),
     chi_2 |-> Alias("default", <<>>),
     luminosity_distance |-> Alias("distance", <<>>)]

\* str.lower on the names of the models below.
lower(p) ==
    CASE p = "RA" -> "ra"
      [] p = "Dec" -> "dec"
      [] OTHER -> p

\* self._reparameterisation.parameters: the parameters of the attached
\* transforms, one after the other.
claimed(reparameterisations) ==
    UNION {{reparameterisations[i].parameters[j] :
               j \in DOMAIN reparameterisations[i].parameters} :
           i \in DOMAIN reparameterisations}

\* [p] + [ep for ep in extra_params if ep in self.model.names]
with_extra_params(p, extra_params, names) ==
    LET Named(ep) == \E i \in DOMAIN names : names[i] = ep
    IN  <<p>> \o SelectSeq(extra_params, Named)

\* reparam(parameters=p, prior_bounds=prior_bounds, **kwargs) for the entry
\* get_reparameterisation returned.
default_reparameterisation(entry, p, model) ==
    [cls |-> entry.cls, kwargs |-> entry.kwargs, parameters |-> p,
     prior_bounds |-> [k \in {p[i] : i \in DOMAIN p} |-> model.bounds[k]],
     default |-> TRUE]

RECURSIVE add_defaults_unskipped(_, _, _, _)
add_defaults_unskipped(reparameterisations, todo, model, defaults) ==
    IF todo = <<>> THEN [raised |-> FALSE, reparameterisations |-> reparameterisations]
    ELSE LET p == Head(todo)
             a == IF lower(p) \in DOMAIN aliases THEN aliases[lower(p)]
                  ELSE Alias("None", <<>>)
         IN  IF a.name = "None"
             THEN add_defaults_unskipped(reparameterisations, Tail(todo), model, defaults)
             ELSE LET entry == get_reparameterisation(a.name, defaults)
                  IN  IF ~entry.ok
                      THEN [raised |-> TRUE, reparameterisations |-> reparameterisations]
                      ELSE add_defaults_unskipped(
                               Append(reparameterisations,
                                      default_reparameterisation(
                                          entry,
                                          with_extra_params(p, a.extra_params, model.names),
                                          model)),
                               Tail(todo), model, defaults)

\* The loop of add_default_reparameterisations over the parameters still to
\* do; a name get_reparameterisation does not know ends the pass with its
\* error.
RECURSIVE add_defaults(_, _, _, _)
add_defaults(reparameterisations, todo, model, defaults) ==
    IF todo = <<>> THEN [raised |-> FALSE, reparameterisations |-> reparameterisations]
    ELSE LET p == Head(todo)
             a == IF lower(p) \in DOMAIN aliases THEN aliases[lower(p)]
                  ELSE Alias("None", <<>>)
         IN  IF p \in claimed(reparameterisations)
             THEN add_defaults(reparameterisations, Tail(todo), model, defaults)
             ELSE IF a.name = "None"
             THEN add_defaults(reparameterisations, Tail(todo), model, defaults)
             ELSE LET entry == get_reparameterisation(a.name, defaults)
                  IN  IF ~entry.ok
                      THEN [raised |-> TRUE, reparameterisations |-> reparameterisations]
                      ELSE add_defaults(
                               Append(reparameterisations,
                                      default_reparameterisation(
                                          entry,
                                          with_extra_params(p, a.extra_params, model.names),
                                          model)),
                               Tail(todo), model, defaults)

add_default_reparameterisations(prop, defaults) ==
    LET Unclaimed(n) == n \notin claimed(prop.reparameterisations)
        parameters_ == SelectSeq(prop.model.names, Unclaimed)
        r == add_defaults(prop.reparameterisations, parameters_, prop.model, defaults)
    IN  [model |-> prop.model, reparameterisations |-> r.reparameterisations,
         raised |-> r.raised]

\* The names a model may declare, in the two orders it may declare them.
ModelNamePool ==
    <<"ra", "dec", "Dec", "chirp_mass", "luminosity_distance", "psi", "x0">>

Reverse(seq) == [i \in DOMAIN seq |-> seq[Len(seq) + 1 - i]]

ModelNames ==
    UNION {LET In(n) == n \in chosen
           IN  {SelectSeq(ModelNamePool, In), Reverse(SelectSeq(ModelNamePool, In))} :
           chosen \in SUBSET {ModelNamePool[i] : i \in DOMAIN ModelNamePool}}

\* model.bounds: each name of the pool has bounds of its own.
ModelBounds ==
    [n \in {ModelNamePool[i] : i \in DOMAIN ModelNamePool} |->
        <<0, CHOOSE i \in DOMAIN ModelNamePool : ModelNamePool[i] = n>>]

\* A transform the user configured for one parameter, attached before the
\* defaults are added.
explicit_reparameterisation(p) ==
    [cls |-> "explicit", kwargs |-> {}, parameters |-> <<p>>,
     prior_bounds |-> [k \in {p} |-> ModelBounds[k]], default |-> FALSE]

\* The proposal once the configured transforms are attached.
Proposal(names, configured) ==
    LET Configured(n) == n \in configured
        ps == SelectSeq(names, Configured)
    IN  [model |-> [names |-> names, bounds |-> ModelBounds],
         reparameterisations |-> [i \in DOMAIN ps |-> explicit_reparameterisation(ps[i])],
         raised |-> FALSE]

add_default_reparameterisations_call ==
    /\ pc = "imported"
    /\ proposal' = add_default_reparameterisations(proposal, known_reparameterisations)
    /\ pc' = "add_default_reparameterisations"
    /\ UNCHANGED <<tvars, base_reparameterisations, known_reparameterisations,
                   resolved, args, x_prime_names>>

\* The package is imported, with a host registry that holds the host's key
\* of the aliases used here, and a proposal is built for a model.
InitProposal ==
    /\ NoTransform
    /\ pc = "imported"
    /\ base_reparameterisations \in {b \in BaseRegistries : "angle-pi" \in DOMAIN b}
    /\ known_reparameterisations =
          known_reparameterisations_imported(base_reparameterisations)
    /\ resolved = <<>>
    /\ args = <<>>
    /\ x_prime_names = {}
    /\ \E names \in ModelNames :
          \E configured \in SUBSET {names[i] : i \in DOMAIN names} :
              proposal = Proposal(names, configured)

NextProposal == add_default_reparameterisations_call

SpecProposal == InitProposal /\ [][NextProposal]_vars

----------------------------------------------------------------------------
(* Properties of the fold transform (SpecFold) *)

\* The row lies within the prior bounds, the bounds included.
InBounds(slf, row) ==
    /\ row["lambda"] \in 0..TwoPi
    /\ row["beta"] \in (-HalfPi)..HalfPi
    /\ row["psi"] \in 0..Pi
    /\ row["iota"] \in 0..Pi
    /\ HasPhase(slf) => row["phase"] \in 0..TwoPi

\* The row lies within longitude [0, 2pi), latitude [-pi/2, pi/2],
\* polarization [0, pi), inclination [0, pi) and phase [0, 2pi).
InDeclared(slf, row) ==
    /\ row["lambda"] \in 0..(TwoPi - 1)
    /\ row["beta"] \in (-HalfPi)..HalfPi
    /\ row["psi"] \in 0..(Pi - 1)
    /\ row["iota"] \in 0..(Pi - 1)
    /\ HasPhase(slf) => row["phase"] \in 0..(TwoPi - 1)

\* C1: with include_mode_index=True and x within the declared prior bounds,
\* reparameterise leaves x and log_j as they are and inverse_reparameterise on
\* its output gives back every field of x and the same log_j.
C1_RoundTrip ==
    [][(self.include_mode_index /\ InDeclared(self, x)) =>
          /\ pc' = "reparameterise" => (x' = x /\ log_j' = log_j)
          /\ (pc = "reparameterise" /\ pc' = "inverse_reparameterise") =>
                (x' = x /\ log_j' = log_j)]_vars

\* C2: for a row within the prior bounds, the bounds included, determine_modes
\* gives an index in [0, n_modes) with long_num in 0..3, lat_num in 0..1 and
\* phase_num in 0..1.
C2_ModeIndexInRange ==
    (pc = "reparameterise" /\ InBounds(self, x)) =>
        /\ mode_ids.index \in 0..(n_modes(self) - 1)
        /\ mode_ids.long_num \in 0..3
        /\ mode_ids.lat_num \in 0..1
        /\ mode_ids.phase_num \in 0..1

\* C3 as stated: after fold of a row within the prior bounds the folded
\* longitude lies in [0, 2pi), the folded polarization in [0, pi) for both
\* latitude bins, and latitude and inclination are reflected when lat_bin = 0
\* and unchanged when lat_bin = 1.
C3_FoldedDomain_Stated ==
    (pc = "reparameterise" /\ InBounds(self, x)) =>
        /\ x_prime["lambda_folded"] \in 0..(TwoPi - 1)
        /\ x_prime["psi_folded"] \in 0..(Pi - 1)
        /\ mode_ids.lat_num = 0 =>
              /\ x_prime["beta_folded"] = -x["beta"]
              /\ x_prime["iota_folded"] = Pi - x["iota"]
        /\ mode_ids.lat_num = 1 =>
              /\ x_prime["beta_folded"] = x["beta"]
              /\ x_prime["iota_folded"] = x["iota"]

\* C3 amended: the folded polarization lies in [0, pi) when lat_bin is not 0
\* and in (0, pi] when lat_bin = 0; the folded longitude lies in [0, 2pi);
\* latitude and inclination are reflected when lat_bin = 0 and unchanged
\* otherwise.
C3_FoldedDomain ==
    (pc = "reparameterise" /\ InBounds(self, x)) =>
        /\ x_prime["lambda_folded"] \in 0..(TwoPi - 1)
        /\ mode_ids.lat_num = 0 =>
              /\ x_prime["psi_folded"] \in 1..Pi
              /\ x_prime["beta_folded"] = -x["beta"]
              /\ x_prime["iota_folded"] = Pi - x["iota"]
        /\ mode_ids.lat_num # 0 =>
              /\ x_prime["psi_folded"] \in 0..(Pi - 1)
              /\ x_prime["beta_folded"] = x["beta"]
              /\ x_prime["iota_folded"] = x["iota"]

\* A row of the southern hemisphere whose shifted polarization is 0 folds to
\* polarization pi.
C3_Witness ==
    /\ pc = "reparameterise"
    /\ InBounds(self, x)
    /\ mode_ids.lat_num = 0
    /\ x_prime["psi_folded"] = Pi

\* C9: unfold_modes of an index m in [0, n_modes) gives long_num in 0..3,
\* lat_num in 0..1 and phase_num in 0..1 with long_num + 4 * lat_num +
\* 8 * phase_num = m, and the index determine_modes packs from such a triple
\* decomposes back into the triple.
C9_ModeBijection ==
    /\ (pc = "inverse_reparameterise"
            /\ mode_ids.index \in 0..(n_modes(self) - 1)) =>
          /\ mode_ids.long_num \in 0..3
          /\ mode_ids.lat_num \in 0..1
          /\ mode_ids.phase_num \in 0..1
          /\ mode_ids.long_num + 4 * mode_ids.lat_num
                + 8 * mode_ids.phase_num = mode_ids.index
    /\ (pc = "reparameterise"
            /\ mode_ids.long_num \in 0..3
            /\ mode_ids.lat_num \in 0..1
            /\ mode_ids.phase_num \in 0..1) =>
          unfold_modes(mode_ids.index) = mode_ids

\* The last mode of a transform with a phase parameter has been drawn and
\* decomposed.
C9_Witness ==
    /\ pc = "inverse_reparameterise"
    /\ ~self.include_mode_index
    /\ mode_ids.index = 15

----------------------------------------------------------------------------
(* Properties of the mode weights (SpecWeights) *)

Floored(slf) == slf.minimum_mode_weight.num # 0

\* C4: after update on a non-empty batch mode_weights has n_modes entries,
\* none negative, summing to 1, and with a positive minimum_mode_weight every
\* stored entry is at least that minimum.
C4_WeightsNormalisedAndFloored ==
    (pc = "update" /\ batch.rows # <<>>) =>
        LET w == self.mode_weights
        IN  /\ ~w.is_none
            /\ Len(w.num) = n_modes(self)
            /\ w.den > 0
            /\ \A i \in DOMAIN w.num : w.num[i] >= 0
            /\ SumSeq(w.num) = w.den
            /\ Floored(self) =>
                  \A i \in DOMAIN w.num :
                      w.num[i] * self.minimum_mode_weight.den
                          >= self.minimum_mode_weight.num * w.den

\* C5: with estimate_mode_weights=True, inverse_reparameterise does not
\* return before update has been called on the instance.
C5_InverseBeforeUpdateRaises ==
    (self.estimate_mode_weights /\ ~self.include_mode_index /\ ~batch.given) =>
        pc # "inverse_reparameterise"

\* The number of rows of the batch in mode i.
ModeCount(slf, rows, i) ==
    Cardinality({j \in DOMAIN rows : determine_modes(slf, rows[j]).index = i})

\* The weight of mode i estimated from the rows alone is e / sum of e over
\* the modes, with e the share of the rows in the mode, raised to the
\* minimum; here e times Len(rows) times the minimum's denominator.
Estimate(slf, rows, i) ==
    IF Floored(slf)
    THEN Max(ModeCount(slf, rows, i) * slf.minimum_mode_weight.den,
             slf.minimum_mode_weight.num * Len(rows))
    ELSE ModeCount(slf, rows, i)

\* w is the array of the weights estimated from the rows alone (an array of
\* NaN for no rows).
EstimatedFrom(slf, rows, w) ==
    /\ ~w.is_none
    /\ IF rows = <<>>
       THEN w.den = 0
       ELSE /\ w.den # 0
            /\ \A j \in DOMAIN rows :
                  determine_modes(slf, rows[j]).index < Len(w.num)
            /\ Len(w.num) >= n_modes(slf)
            /\ \E e \in {[k \in DOMAIN w.num |-> Estimate(slf, rows, k - 1)]} :
                  \E total \in {SumSeq(e)} :
                      \A i \in DOMAIN w.num : w.num[i] * total = e[i] * w.den

\* C6: mode_weights is None until the first update, after an update it is
\* the estimate from that update's batch alone, after reset it is None, and
\* reparameterise and inverse_reparameterise leave it as it is.
C6_WeightsLifecycle ==
    /\ ~batch.given => self.mode_weights.is_none
    /\ [](pc = "update" =>
            EstimatedFrom(self, batch.rows, self.mode_weights))
    /\ [][/\ ~batch'.given => self'.mode_weights.is_none
          /\ pc' = "reset" => self'.mode_weights.is_none
          /\ pc' \in {"reparameterise", "inverse_reparameterise",
                      "inverse_reparameterise raised"} =>
                self'.mode_weights = self.mode_weights]_vars

\* An estimate has been made from two rows of different modes and cleared by
\* reset.
C6_Witness ==
    /\ pc = "reset"
    /\ batch.given
    /\ Len(batch.rows) = 2
    /\ batch.rows[1] # batch.rows[2]
    /\ self.mode_weights.is_none

\* C7: after reset every mode index in 0..n_modes-1 is a possible draw of
\* sample_mode_index, and inverse_reparameterise does not raise while
\* mode_weights is None.
C7_ResetGivesUniform ==
    /\ pc = "reset" =>
          /\ sample_mode_index(self).ok
          /\ sample_mode_index(self).draws = 0..(n_modes(self) - 1)
    /\ self.mode_weights.is_none => pc # "inverse_reparameterise raised"

\* After an estimate and a reset, inverse_reparameterise has drawn a mode
\* the discarded estimate gave weight 0.
C7_Witness ==
    /\ pc = "inverse_reparameterise"
    /\ batch.given
    /\ self.mode_weights.is_none
    /\ LET w == update(self, batch.rows).mode_weights
       IN  /\ w.den # 0
           /\ Len(w.num) = n_modes(self)
           /\ w.num[mode_ids.index + 1] = 0

----------------------------------------------------------------------------
(* Properties of the registry (SpecRegistry) *)

----------------------------------------------------------------------------
(* Properties of the delta-phase transform (SpecDelta) *)

\* C10: reparameterise sets delta_phase to phase + psi for cos(theta_jn) > 0,
\* to phase for cos(theta_jn) = 0 and to phase - psi for cos(theta_jn) < 0,
\* and leaves x and log_j as they are; inverse_reparameterise, given the psi
\* and theta_jn of the forward call, writes the phase of the forward call
\* (modulo 2 pi) and leaves x_prime and log_j as they are.
C10_DeltaPhaseInvertible ==
    [][/\ pc' = "DeltaPhase.reparameterise" =>
             /\ x_prime'["delta_phase"] =
                   (IF x["theta_jn"] < HalfPi THEN x["phase"] + x["psi"]
                    ELSE IF x["theta_jn"] = HalfPi THEN x["phase"]
                    ELSE x["phase"] - x["psi"])
             /\ x' = x
             /\ log_j' = log_j
       /\ (pc = "DeltaPhase.reparameterise"
               /\ pc' = "DeltaPhase.inverse_reparameterise") =>
             /\ x'["phase"] = x["phase"] % TwoPi
             /\ x' = x
             /\ x_prime' = x_prime
             /\ log_j' = log_j]_vars

\* A phase has been recovered from a delta_phase below 0, for
\* cos(theta_jn) < 0.
C10_Witness ==
    /\ pc = "DeltaPhase.inverse_reparameterise"
    /\ x["theta_jn"] > HalfPi
    /\ x_prime["delta_phase"] < 0
    /\ x["phase"] = x_prime["delta_phase"] + x["psi"]

----------------------------------------------------------------------------
(* Properties of the fold transform's constructor (SpecConstruct) *)

\* The members of the listed parameters that are aliases of a role.
Matches(known) == known \cap {args.parameters[i] : i \in DOMAIN args.parameters}

\* Every listed name has its role's canonical bounds, exactly.
CanonicalCall ==
    \A p \in DOMAIN args.prior_bounds : args.prior_bounds[p] = CanonicalBounds(p)

\* The call is valid but for the two flags: every mandatory role is named
\* or has one match, the phase role is named or has at most one match, a
\* named role is listed, and the bounds are the canonical ones.
ValidButForFlags ==
    /\ CanonicalCall
    /\ args.lambda_parameter = "None" => Cardinality(Matches(known_lambda_parameters)) = 1
    /\ args.lambda_parameter # "None" => args.lambda_parameter \in DOMAIN args.prior_bounds
    /\ Cardinality(Matches(known_beta_parameters)) = 1
    /\ Cardinality(Matches(known_psi_parameters)) = 1
    /\ Cardinality(Matches(known_iota_parameters)) = 1
    /\ args.phase_parameter = "None" => Cardinality(Matches(known_phase_parameters)) <= 1
    /\ args.phase_parameter # "None" => args.phase_parameter \in DOMAIN args.prior_bounds

Constructed == pc \in {"LISAExtrinsicSymmetry.__init__", "n_modes"}
Failed == pc = "LISAExtrinsicSymmetry.__init__ raised"

\* C11: a constructor call with estimate_mode_weights=True and
\* include_mode_index=True returns no instance, and when the call is valid
\* but for the two flags it is the RuntimeError of the check of the two flags
\* that is raised.
C11_PoliciesExclusive ==
    (pc # "init" /\ args.estimate_mode_weights /\ args.include_mode_index) =>
        /\ Failed
        /\ ValidButForFlags => (self.raised = "RuntimeError" /\ self.by = "__init__")

\* A call that is valid but for the two flags has failed.
C11_Witness ==
    /\ Failed
    /\ args.estimate_mode_weights /\ args.include_mode_index
    /\ ValidButForFlags
    /\ self.by = "__init__"

\* The name a role is to be bound to: the name given, or the one listed
\* alias of the role; "None" when the role is not named and zero or several
\* listed names are aliases of it.
RoleName(named, known) ==
    IF named # "None" THEN named
    ELSE IF Cardinality(Matches(known)) = 1
         THEN CHOOSE n \in Matches(known) : TRUE
    ELSE "None"

MandatoryRoles ==
    {<<"lambda_parameter", known_lambda_parameters>>,
     <<"beta_parameter", known_beta_parameters>>,
     <<"psi_parameter", known_psi_parameters>>,
     <<"iota_parameter", known_iota_parameters>>}

Roles == MandatoryRoles \cup {<<"phase_parameter", known_phase_parameters>>}

\* C13: a mandatory role that is not named is bound to the one listed alias
\* of the role, and construction fails when zero or several listed names are
\* aliases of it; the phase role is bound the same way, but with no listed
\* alias it stays unbound and construction goes on; n_modes is 16 when the
\* phase role is bound and 8 otherwise.
C13_RoleInference ==
    pc # "init" =>
        /\ \A r \in MandatoryRoles :
              args[r[1]] = "None" =>
                 /\ Cardinality(Matches(r[2])) # 1 => Failed
                 /\ Constructed =>
                       (self[r[1]] \in Matches(r[2]) /\ Matches(r[2]) = {self[r[1]]})
        /\ args.phase_parameter = "None" =>
              /\ Cardinality(Matches(known_phase_parameters)) > 1 => Failed
              /\ (Constructed /\ Matches(known_phase_parameters) = {}) =>
                    self.phase_parameter = "None"
              /\ (Constructed /\ Matches(known_phase_parameters) # {}) =>
                    Matches(known_phase_parameters) = {self.phase_parameter}
              /\ (ValidButForFlags
                     /\ ~(args.estimate_mode_weights /\ args.include_mode_index)) =>
                    Constructed
        /\ pc = "n_modes" =>
              resolved = (IF self.phase_parameter # "None" THEN 16 ELSE 8)

\* An instance built from four listed names, the longitude role inferred and
\* the phase role left unbound, has 8 modes.
C13_Witness ==
    /\ pc = "n_modes"
    /\ args.lambda_parameter = "None"
    /\ self.lambda_parameter = "eclipticlongitude"
    /\ Matches(known_phase_parameters) = {}
    /\ self.phase_parameter = "None"
    /\ resolved = 8

\* The role whose setter raised is not bound.
Unbound(role) == self.by = role => self[role] = "None"

\* C14 as stated: when the declared bounds of the parameter a role is to be
\* bound to differ from the role's canonical range, or the parameter has no
\* declared bounds, construction fails with the configuration error
\* (RuntimeError) and the role is not bound; the bounds are not adjusted.
C14_BoundsValidated_Stated ==
    pc # "init" =>
        \A r \in Roles :
            LET name == RoleName(args[r[1]], r[2])
            IN  name # "None" =>
                   /\ (name \notin DOMAIN args.prior_bounds
                          \/ args.prior_bounds[name] # CanonicalBounds(name)) =>
                         /\ Failed
                         /\ self.raised = "RuntimeError"
                         /\ Unbound(r[1])
                   /\ self.prior_bounds = args.prior_bounds

\* The declared bounds the setter of a role accepts: an upper bound (and the
\* lower bound of the latitude) within the tolerance of np.isclose of the
\* canonical value, any other lower bound exactly 0.
Accepted(role, name) ==
    LET declared == args.prior_bounds[name]
        canonical == CanonicalBounds(name)
    IN  /\ declared[2].g = canonical[2].g
        /\ IF role = "beta_parameter"
           THEN declared[1].g = canonical[1].g
           ELSE declared[1] = canonical[1]

\* C14 amended: when the parameter a role is to be bound to has no declared
\* bounds construction fails, with a KeyError when it is that role's setter
\* that raises; when its declared bounds are not accepted (a lower bound that
\* is not exactly 0, or an upper bound or latitude bound outside the tolerance
\* of np.isclose) construction fails, with a RuntimeError when it is that
\* role's setter that raises; the role whose setter raises is not bound; an
\* instance is constructed only with accepted bounds, which are kept as
\* declared.
C14_BoundsValidated ==
    pc # "init" =>
        \A r \in Roles :
            LET name == RoleName(args[r[1]], r[2])
            IN  name # "None" =>
                   /\ name \notin DOMAIN args.prior_bounds =>
                         /\ Failed
                         /\ self.by = r[1] => self.raised = "KeyError"
                         /\ Unbound(r[1])
                   /\ (name \in DOMAIN args.prior_bounds /\ ~Accepted(r[1], name)) =>
                         /\ Failed
                         /\ self.by = r[1] => self.raised = "RuntimeError"
                         /\ Unbound(r[1])
                   /\ Constructed =>
                         /\ self[r[1]] = name
                         /\ Accepted(r[1], name)
                   /\ self.prior_bounds = args.prior_bounds

\* The setter of the polarization role has raised for an upper bound one
\* grid step above pi.
C14_Witness ==
    /\ Failed
    /\ self.by = "psi_parameter"
    /\ self.raised = "RuntimeError"
    /\ "polarization" \in DOMAIN args.prior_bounds
    /\ args.prior_bounds["polarization"][2] = Bound(Pi + 1, 0)
    /\ self.psi_parameter = "None"

----------------------------------------------------------------------------
(* Properties of the distance transform's constructor (SpecDistance) *)

\* The number of names the call gives.
GivenNames == IF args.is_str THEN 1 ELSE Len(args.parameters)

\* C12 as stated: with one name (a string or a list of one) construction goes
\* on to the converter and the parent's constructor; with any other number of
\* names it fails with the configuration error (RuntimeError), before the
\* converter or the parent is constructed.
C12_OneParameter_Stated ==
    pc # "init" =>
        /\ GivenNames = 1 =>
              /\ self.raised = "None"
              /\ self.calls = <<"get_distance_converter", "dc_class",
                                "RescaleToBounds.__init__">>
        /\ GivenNames # 1 =>
              /\ self.raised = "RuntimeError"
              /\ \A i \in DOMAIN self.calls :
                    self.calls[i] \notin {"dc_class", "RescaleToBounds.__init__"}

\* C12 amended: with one name construction goes on to the converter and the
\* parent's constructor; with more than one name it fails with the
\* RuntimeError before anything else is called; with an empty list it fails
\* with an IndexError, after the converter class has been looked up and
\* before the converter or the parent is constructed.
C12_OneParameter ==
    pc # "init" =>
        /\ GivenNames = 1 =>
              /\ self.raised = "None"
              /\ self.calls = <<"get_distance_converter", "dc_class",
                                "RescaleToBounds.__init__">>
              /\ Len(self.parameters) = 1
        /\ GivenNames > 1 =>
              /\ self.raised = "RuntimeError"
              /\ self.calls = <<>>
        /\ GivenNames = 0 =>
              /\ self.raised = "IndexError"
              /\ self.calls = <<"get_distance_converter">>

\* A call with two names has been rejected.
C12_Witness ==
    /\ pc = "DistanceReparameterisation.__init__ raised"
    /\ GivenNames = 2
    /\ self.raised = "RuntimeError"

----------------------------------------------------------------------------
(* Frame of the fold transform (SpecFold) *)

----------------------------------------------------------------------------
(* Unfolding a folded row with any mode index (SpecFold) *)

\* C18: the row unfolded from a folded row with a drawn mode index m lies
\* within the prior bounds, determine_modes gives it the index m, and folding it
\* gives the folded row again.
C18_UnfoldThenFold ==
    (pc = "inverse_reparameterise" /\ ~self.include_mode_index) =>
        /\ InBounds(self, x)
        /\ determine_modes(self, x).index = mode_ids.index
        /\ fold(self, x, <<>>, log_j).x_prime = x_prime

----------------------------------------------------------------------------
(* Failing calls of the fold transform (SpecFailure) *)

\* C17: a reparameterise or inverse_reparameterise that raises, for an x_prime
\* without the mode_index field under the explicit-index policy or for weights
\* that cannot be drawn from under the estimated-weights policy, leaves x,
\* x_prime and log_j as they were.
C17_FailureBeforeWrites ==
    [][pc' \in {"reparameterise raised", "inverse_reparameterise raised"} =>
          /\ x' = x
          /\ x_prime' = x_prime
          /\ log_j' = log_j]_vars

\* inverse_reparameterise has raised on a folded row without the mode_index
\* field.
C17_Witness ==
    /\ pc = "inverse_reparameterise raised"
    /\ self.include_mode_index
    /\ "mode_index" \notin x_prime_names
    /\ "lambda_folded" \in DOMAIN x_prime
    /\ x["lambda"] # x_prime["lambda_folded"]

----------------------------------------------------------------------------
(* Properties of the default transforms (SpecProposal) *)

PassDone == pc = "add_default_reparameterisations"

Declared == {proposal.model.names[i] : i \in DOMAIN proposal.model.names}

Position(n) == CHOOSE i \in DOMAIN proposal.model.names : proposal.model.names[i] = n

Attached == proposal.reparameterisations

Names(t) == {t.parameters[j] : j \in DOMAIN t.parameters}

Configured == UNION {Names(Attached[i]) : i \in {j \in DOMAIN Attached : ~Attached[j].default}}

Added == {i \in DOMAIN Attached : Attached[i].default}

\* The transform the pass is to add for p.
Expected(p) ==
    LET a == aliases[lower(p)]
        Present(ep) == ep \in Declared
        ps == <<p>> \o SelectSeq(a.extra_params, Present)
    IN  [cls |-> known_reparameterisations[a.name].cls,
         kwargs |-> known_reparameterisations[a.name].kwargs,
         parameters |-> ps,
         prior_bounds |-> [k \in Names([parameters |-> ps]) |-> proposal.model.bounds[k]],
         default |-> TRUE]

\* p is a parameter of a transform the pass added for an earlier parameter.
ClaimedMeanwhile(p) ==
    \E i \in Added : /\ Position(Attached[i].parameters[1]) < Position(p)
                     /\ p \in Names(Attached[i])

\* C16: after the pass, the added transforms follow the declaration order of
\* their first parameters, which were all unclaimed at the start; an
\* unclaimed parameter that an earlier added transform claimed, or whose
\* lower-cased name has no alias, has no transform of its own; every other
\* unclaimed parameter has exactly one, built from the registry entry of its
\* alias's key with the parameter, then the co-parameters the model
\* declares, the prior bounds of exactly those, and the entry's keyword
\* arguments.
C16_DefaultPass ==
    PassDone =>
        /\ ~proposal.raised
        /\ \A i \in Added : Attached[i].parameters[1] \in Declared \ Configured
        /\ \A i, j \in Added :
              i < j => Position(Attached[i].parameters[1]) < Position(Attached[j].parameters[1])
        /\ \A i \in DOMAIN Attached : ~Attached[i].default => i < 1 + Cardinality(Configured)
        /\ \A p \in Declared \ Configured :
              LET own == {i \in Added : Attached[i].parameters[1] = p}
              IN  IF ClaimedMeanwhile(p) \/ lower(p) \notin DOMAIN aliases
                  THEN own = {}
                  ELSE /\ Cardinality(own) = 1
                       /\ \A i \in own : Attached[i] = Expected(p)

C16_Witness ==
    /\ PassDone
    /\ proposal.model.names = <<"ra", "dec", "psi", "x0">>
    /\ Configured = {}
    /\ Len(Attached) = 2
    /\ Attached[1].parameters = <<"ra", "dec">>
    /\ Attached[2].parameters = <<"psi">>

\* C19 as stated: after the pass no model parameter is a parameter of more
\* than one attached transform.
C19_ClaimedOnce ==
    PassDone =>
        \A n \in Declared :
            Cardinality({i \in DOMAIN Attached : n \in Names(Attached[i])}) <= 1

\* A default transform that takes a configured parameter as co-parameter.
C19_Reached ==
    /\ PassDone
    /\ \E i \in Added : Names(Attached[i]) \cap Configured # {}

====
